---- MODULE Spec2Model ----
(***************************************************************************)
(* LairChatClient (examples/python-client/lair_chat_client.py): the        *)
(* background message polling of one client object.                        *)
(*                                                                         *)
(* The controller is the thread that calls start_message_polling and       *)
(* stop_message_polling (the interactive menu).  Each start creates one    *)
(* polling thread running the closure poll_messages.  The threads and the  *)
(* controller share one flag, self.message_polling.  The chat server is    *)
(* the environment: a room's log of messages in arrival order, of which    *)
(* get_messages returns the most recent `limit` ones, oldest first (the    *)
(* demo prints messages[-5:] as the "last 5 messages").  A message is its  *)
(* identifier, a number that grows in arrival order.                       *)
(***************************************************************************)
EXTENDS Integers, Sequences, FiniteSets, TLC

\* limit=10 in poll_messages' call of get_messages
Limit == 10
\* timeout=1.0 of polling_thread.join, in seconds
JoinTimeout == 1
\* 'timeout': 30 of _make_request, in seconds
RequestTimeout == 30

\* messages the room receives while several polling threads are followed
MaxMsgs == 2
\* messages the room receives while one polling loop is followed: more than
\* Limit, so that the fetched window slides
MaxLoopMsgs == 11
\* messages the server may trim from the front of the room's history
MaxTrim == 1
\* polling threads one client object creates
MaxThreads == 2
\* exceptions _display_message raises into poll_messages' except clause
MaxRaises == 1
\* an exception of _display_message hits one of the first MaxRaiseAt + 1
\* messages of a batch
MaxRaiseAt == 2

Threads == 1..MaxThreads

\* the interval argument of start_message_polling, in seconds: negative,
\* zero, and the default 2.0
Intervals == {-1, 0, 2}
\* the same without zero, which time.sleep accepts as it does 2.0
LoopIntervals == {-1, 2}

\* outcomes of _make_request('GET', '/messages...'): a decoded response, or
\* one of the exceptions it raises
Errors == {"NetworkFailure", "AuthFailure", "ServerError", "DecodeFailure"}
Outcomes == {"ok"} \cup Errors

VARIABLES
    message_polling,   \* self.message_polling
    polling_thread,    \* self.polling_thread: 0 is None, else a thread
    ctl,               \* where the controller is: "idle", or blocked in join
    arg_interval,      \* the interval argument of the start call in progress
    nthreads,          \* threading.Thread objects created so far
    thr,               \* per thread: pc and the closure's variables
    total,             \* server: messages posted to the room so far
    trimmed,           \* server: messages trimmed from the front of the log
    raises,            \* exceptions _display_message has raised so far
    delivered,         \* per thread: messages _display_message has printed
    stopRequested,     \* threads stop_message_polling has asked to stop
    stopReturned,      \* threads whose stop_message_polling has returned
    stopInFlight,      \* threads asked to stop while their fetch is in flight
    token,             \* self.token
    user_info,         \* self.user_info
    current_room,      \* self.current_room
    authorization,     \* self.session.headers['Authorization'], if present
    stop_output        \* the lines stop_message_polling has printed

vars == <<message_polling, polling_thread, ctl, arg_interval, nthreads, thr,
          total, trimmed, raises, delivered, stopRequested, stopReturned,
          stopInFlight, token, user_info, current_room, authorization,
          stop_output>>

\* Python's None, and a key absent from the session's headers
None == "None"

\* print("Stopped message polling"), line 341
StoppedLine == "Stopped message polling"

session == <<token, user_info, current_room, authorization>>

server == <<total, trimmed>>
ghost == <<stopRequested, stopReturned, stopInFlight>>

Max(a, b) == IF a >= b THEN a ELSE b

\* the server's answer to GET /messages?room_id=..&limit=..: the most recent
\* `limit` messages still in the room's history, oldest first
Window(limit) ==
    LET lo == Max(trimmed, total - limit)
    IN  [i \in 1..(total - lo) |-> lo + i]

\* get_messages: the response's data, or [] when _make_request raised
get_messages(outcome, limit) ==
    IF outcome = "ok" THEN Window(limit) ELSE <<>>

\* a slice that ignores the cursor
SliceAll(messages, from) == messages

\* messages[last_message_count:]
Slice(messages, from) ==
    IF from >= Len(messages) THEN <<>>
    ELSE SubSeq(messages, from + 1, Len(messages))

\* threading.Thread.is_alive
Alive(t) == thr[t].pc \notin {"unborn", "exited", "crashed"}

\* a thread not yet created
Unborn ==
    [pc |-> "unborn", interval |-> 0, last_message_count |-> 0,
     outcome |-> "none", fetched |-> 0]

Init ==
    /\ message_polling = FALSE
    /\ polling_thread = 0
    /\ ctl = "idle"
    /\ arg_interval = 0
    /\ nthreads = 0
    /\ thr = [t \in Threads |-> Unborn]
    /\ total = 0
    /\ trimmed = 0
    /\ raises = 0
    /\ delivered = [t \in Threads |-> <<>>]
    /\ stopRequested = {}
    /\ stopReturned = {}
    /\ stopInFlight = {}
    /\ token = None
    /\ user_info = None
    /\ current_room = None
    /\ authorization = None
    /\ stop_output = <<>>

----------------------------------------------------------------------------
\* The server (environment)

\* another user's message arrives in the room
ServerPost ==
    /\ total' = total + 1
    /\ UNCHANGED <<message_polling, polling_thread, ctl, arg_interval,
                   nthreads, thr, trimmed, raises, delivered, ghost,
                   session, stop_output>>

\* the server drops the oldest message of the room's history
ServerTrim ==
    /\ trimmed < MaxTrim
    /\ trimmed < total
    /\ trimmed' = trimmed + 1
    /\ UNCHANGED <<message_polling, polling_thread, ctl, arg_interval,
                   nthreads, thr, total, raises, delivered, ghost,
                   session, stop_output>>

----------------------------------------------------------------------------
\* The controller

\* start_message_polling, lines 307-331: set the flag, create and start the
\* thread, which begins with last_message_count = 0 at its while test
Spawn(interval) ==
    /\ message_polling' = TRUE
    /\ nthreads' = nthreads + 1
    /\ polling_thread' = nthreads + 1
    /\ thr' = [thr EXCEPT ![nthreads + 1] =
                 [pc |-> "while", interval |-> interval,
                  last_message_count |-> 0, outcome |-> "none",
                  fetched |-> 0]]
    /\ ctl' = "idle"
    /\ arg_interval' = 0

\* stop_message_polling, line 338, with the flag set: clear it, then join
RequestStop ==
    /\ message_polling' = FALSE
    /\ stopRequested' = stopRequested \cup {polling_thread}
    /\ stopInFlight' = IF thr[polling_thread].pc = "fetching"
                       THEN stopInFlight \cup {polling_thread}
                       ELSE stopInFlight

\* start_message_polling(room_id, interval) is called
StartCall(interval) ==
    /\ ctl = "idle"
    /\ nthreads < MaxThreads
    /\ IF message_polling
       THEN /\ RequestStop
            /\ ctl' = "start_join"
            /\ arg_interval' = interval
            /\ UNCHANGED <<polling_thread, nthreads, thr, stopReturned>>
       ELSE /\ Spawn(interval)
            /\ UNCHANGED ghost
    /\ UNCHANGED <<server, raises, delivered, session, stop_output>>

\* a stop that skips the test of the flag at line 337
StopCallUnguarded ==
    /\ ctl = "idle"
    /\ polling_thread # 0
    /\ RequestStop
    /\ ctl' = "stop_join"
    /\ UNCHANGED <<polling_thread, arg_interval, nthreads, thr, stopReturned>>
    /\ UNCHANGED <<server, raises, delivered, session, stop_output>>

\* stop_message_polling() is called
StopCall ==
    /\ ctl = "idle"
    /\ IF message_polling
       THEN /\ RequestStop
            /\ ctl' = "stop_join"
            /\ UNCHANGED <<polling_thread, arg_interval, nthreads, thr,
                           stopReturned>>
       ELSE UNCHANGED <<message_polling, polling_thread, ctl, arg_interval,
                        nthreads, thr, ghost>>
    /\ UNCHANGED <<server, raises, delivered, session, stop_output>>

\* thread t is in a blocking call that can last longer than the join waits:
\* a request, or a sleep of more than JoinTimeout seconds
MayOutlastJoin(t) ==
    \/ thr[t].pc = "fetching" /\ RequestTimeout > JoinTimeout
    \/ thr[t].pc = "sleep" /\ thr[t].interval > JoinTimeout

\* a join() without timeout returns only when the thread has exited
JoinedUnbounded == ~Alive(polling_thread)

\* join(timeout=1.0) returns: the thread has exited, or one second has
\* passed and it has not
Joined ==
    \E timedOut \in BOOLEAN :
      IF timedOut THEN MayOutlastJoin(polling_thread)
      ELSE ~Alive(polling_thread)

\* logout, lines 171-176: drop the Authorization header if there is one,
\* and clear the fields
ClearSession ==
    /\ authorization' = None
    /\ token' = None
    /\ user_info' = None
    /\ current_room' = None

\* self.polling_thread.join(timeout=1.0) returns and stop_message_polling
\* prints its line and returns; a start_message_polling that called it goes
\* on to line 307, a logout to line 171
JoinReturn ==
    /\ ctl \in {"start_join", "stop_join", "logout_join"}
    /\ Joined
    /\ stopReturned' = stopReturned \cup {polling_thread}
    /\ stop_output' = Append(stop_output, StoppedLine)
    /\ IF ctl = "start_join"
       THEN Spawn(arg_interval)
       ELSE /\ ctl' = "idle"
            /\ UNCHANGED <<message_polling, polling_thread, arg_interval,
                           nthreads, thr>>
    /\ IF ctl = "logout_join" THEN ClearSession ELSE UNCHANGED session
    /\ UNCHANGED <<server, raises, delivered, stopRequested, stopInFlight>>

\* what the server's answer to POST /auth/login may hold under the keys
\* 'access_token' and 'user'
Tokens == {None, "token"}
Users == {None, "user"}

\* login(identifier, password): _make_request raises, or returns a response
\* whose access_token and user are stored before the token is tested
LoginCall(raised, access_token, user) ==
    /\ ctl = "idle"
    /\ IF raised
       THEN UNCHANGED session
       ELSE /\ token' = access_token
            /\ user_info' = user
            /\ authorization' = IF access_token # None THEN access_token
                                ELSE authorization
            /\ UNCHANGED current_room
    /\ UNCHANGED <<message_polling, polling_thread, ctl, arg_interval,
                   nthreads, thr, server, raises, delivered, ghost,
                   stop_output>>

\* logout() is called: stop_message_polling first, then the session is
\* cleared
LogoutCall ==
    /\ ctl = "idle"
    /\ IF message_polling
       THEN /\ RequestStop
            /\ ctl' = "logout_join"
            /\ UNCHANGED <<polling_thread, arg_interval, nthreads, thr,
                           stopReturned, session>>
       ELSE /\ ClearSession
            /\ UNCHANGED <<message_polling, polling_thread, ctl,
                           arg_interval, nthreads, thr, ghost>>
    /\ UNCHANGED <<server, raises, delivered, stop_output>>

----------------------------------------------------------------------------
\* A polling thread (poll_messages)

\* while self.message_polling:
PollWhile(t) ==
    /\ thr[t].pc = "while"
    /\ thr' = [thr EXCEPT
                 ![t].pc = IF message_polling THEN "try" ELSE "exited"]
    /\ UNCHANGED <<message_polling, polling_thread, ctl, arg_interval,
                   nthreads, server, raises, delivered, ghost, session,
                   stop_output>>

\* self.get_messages(room_id, limit=10) sends its request
GetMessagesCall(t) ==
    /\ thr[t].pc = "try"
    /\ thr' = [thr EXCEPT ![t].pc = "fetching"]
    /\ stopInFlight' = stopInFlight \ {t}
    /\ UNCHANGED <<message_polling, polling_thread, ctl, arg_interval,
                   nthreads, server, raises, delivered, stopRequested,
                   stopReturned, session, stop_output>>

\* a cycle that assigns len(messages) whether or not the window grew
NextCountUnguarded(count, messages) == Len(messages)

\* last_message_count after a cycle that delivered without an exception
NextCount(count, messages) ==
    IF Len(messages) > count THEN Len(messages) ELSE count

\* get_messages returns and the rest of the cycle runs up to time.sleep:
\* the new messages are displayed one by one; an exception of
\* _display_message (on message k + 1 of the batch) leaves the for loop for
\* the except clause, before last_message_count is assigned
PollCycle(t) ==
    /\ thr[t].pc = "fetching"
    /\ \E outcome \in Outcomes :
         LET messages == get_messages(outcome, Limit)
             count == thr[t].last_message_count
             new_messages == Slice(messages, count)
         IN  \E k \in 0..Len(new_messages) :
               IF k = Len(new_messages)
               THEN /\ delivered' = [delivered EXCEPT
                                       ![t] = delivered[t] \o new_messages]
                    /\ thr' = [thr EXCEPT
                                 ![t].pc = "sleep",
                                 ![t].outcome = outcome,
                                 ![t].fetched = Len(messages),
                                 ![t].last_message_count =
                                     NextCount(count, messages)]
                    /\ UNCHANGED raises
               ELSE /\ raises < MaxRaises
                    /\ k <= MaxRaiseAt
                    /\ delivered' = [delivered EXCEPT
                                       ![t] = delivered[t]
                                              \o SubSeq(new_messages, 1, k)]
                    /\ thr' = [thr EXCEPT ![t].pc = "sleep",
                                          ![t].outcome = outcome,
                                          ![t].fetched = Len(messages)]
                    /\ raises' = raises + 1
    /\ UNCHANGED <<message_polling, polling_thread, ctl, arg_interval,
                   nthreads, server, ghost, session, stop_output>>

\* time.sleep(interval), line 324 or 328, returns; with a negative interval
\* it raises ValueError instead, in the try and again in the except clause,
\* and the exception ends the thread
Sleep(t) ==
    /\ thr[t].pc = "sleep"
    /\ thr' = [thr EXCEPT
                 ![t].pc = IF thr[t].interval < 0 THEN "crashed" ELSE "while",
                 ![t].outcome = "none",
                 ![t].fetched = 0]
    /\ UNCHANGED <<message_polling, polling_thread, ctl, arg_interval,
                   nthreads, server, raises, delivered, ghost, session,
                   stop_output>>

----------------------------------------------------------------------------
\* The client with several polling threads

Next ==
    \/ total < MaxMsgs /\ ServerPost
    \/ ServerTrim
    \/ \E i \in Intervals : StartCall(i)
    \/ StopCall
    \/ JoinReturn
    \/ \E t \in Threads : PollWhile(t)
    \/ \E t \in Threads : GetMessagesCall(t)
    \/ \E t \in Threads : PollCycle(t)
    \/ \E t \in Threads : Sleep(t)

Spec == Init /\ [][Next]_vars

\* The scheduler runs every thread that can run; a request ends (timeout=30
\* of _make_request), a sleep ends, and join(timeout=1.0) returns.  The
\* controller's calls are the user's: nothing forces them.
Fairness ==
    /\ \A t \in Threads : WF_vars(PollWhile(t))
    /\ \A t \in Threads : WF_vars(GetMessagesCall(t))
    /\ \A t \in Threads : WF_vars(PollCycle(t))
    /\ \A t \in Threads : WF_vars(Sleep(t))
    /\ WF_vars(JoinReturn)

FairSpec == Spec /\ Fairness

\* One polling loop that is started and left running, against a room that
\* receives more messages than one fetch returns
LoopNext ==
    \/ total < MaxLoopMsgs /\ ServerPost
    \/ ServerTrim
    \/ nthreads = 0 /\ \E i \in LoopIntervals : StartCall(i)
    \/ \E t \in Threads : PollWhile(t)
    \/ \E t \in Threads : GetMessagesCall(t)
    \/ \E t \in Threads : PollCycle(t)
    \/ \E t \in Threads : Sleep(t)

LoopSpec == Init /\ [][LoopNext]_vars

\* One client session: login and logout, and one polling loop that the
\* controller starts and stops
ControlNext ==
    \/ total < MaxMsgs /\ ServerPost
    \/ nthreads = 0 /\ \E i \in Intervals : StartCall(i)
    \/ StopCall
    \/ LogoutCall
    \/ \E raised \in BOOLEAN, access_token \in Tokens, user \in Users :
         LoginCall(raised, access_token, user)
    \/ JoinReturn
    \/ \E t \in Threads : PollWhile(t)
    \/ \E t \in Threads : GetMessagesCall(t)
    \/ \E t \in Threads : PollCycle(t)
    \/ \E t \in Threads : Sleep(t)

ControlSpec == Init /\ [][ControlNext]_vars

\* join(timeout=1.0) returns after a second at the latest, and a thread
\* runs on from its while test, into its request, and out of a sleep of no
\* more than a second.  Nothing makes a request answer or a longer sleep
\* end: the server or the thread may be unresponsive.
ControlFairness ==
    /\ WF_vars(JoinReturn)
    /\ \A t \in Threads : WF_vars(PollWhile(t))
    /\ \A t \in Threads : WF_vars(GetMessagesCall(t))
    /\ \A t \in Threads :
         WF_vars(thr[t].interval <= JoinTimeout /\ Sleep(t))

ControlFairSpec == ControlSpec /\ ControlFairness

----------------------------------------------------------------------------
\* Properties

\* the identifiers in a sequence of messages
Ids(seq) == {seq[i] : i \in DOMAIN seq}

\* thread t takes the step that ends a fetch (get_messages returns)
CycleOf(t) == thr[t].pc = "fetching" /\ thr'[t].pc = "sleep"

\* thread t ends: the while test fails, or an exception leaves the function
Ends(t) == Alive(t) /\ thr'[t].pc \in {"exited", "crashed"}

\* C1 (clean shutdown): once stop_message_polling has returned for a polling
\* loop, that loop makes no further _display_message call.
C1_CleanShutdown ==
    [][\A t \in stopReturned : delivered'[t] = delivered[t]]_vars

\* a stop has returned for a loop whose fetch is still in flight
C1_Case ==
    \E t \in stopReturned : thr[t].pc = "fetching" /\ total > 0

\* C2 (restart supersedes): at most one polling thread is alive at any time,
\* and an earlier thread has exited before a later one delivers anything.
C2_RestartSupersedes ==
    /\ Cardinality({t \in Threads : Alive(t)}) <= 1
    /\ \A t1, t2 \in Threads :
         (t1 < t2 /\ delivered[t2] # <<>>) => ~Alive(t1)

\* start_message_polling has been called twice
C2_Case == nthreads = 2

\* C3 (no duplication): no message identifier is displayed twice by one
\* polling loop.
C3_NoDuplication ==
    \A t \in Threads :
      \A i, j \in DOMAIN delivered[t] :
        i # j => delivered[t][i] # delivered[t][j]

\* C4 (no missed messages within the window), in the case the claim names:
\* a fetch cycle displays every message of its window that arrived after
\* the last one displayed, so a loop that has displayed Limit messages
\* displays the room's next message in the cycle whose fetch returns it.
C4_AfterLimit ==
    [][\A t \in Threads :
         (/\ CycleOf(t) /\ thr'[t].outcome = "ok" /\ raises' = raises
          /\ trimmed = 0 /\ raises = 0
          /\ Len(delivered[t]) = Limit /\ total > Limit) =>
           total \in Ids(delivered'[t])]_vars

\* C5 (order preservation): the messages one loop displays are in
\* non-decreasing arrival order.
C5_OrderPreserved ==
    \A t \in Threads :
      \A i, j \in DOMAIN delivered[t] :
        i < j => delivered[t][i] <= delivered[t][j]

\* C6 (monotonic cursor): last_message_count of a polling loop never
\* decreases, whatever window a fetch returns.
C6_MonotonicCursor ==
    [][\A t \in Threads :
         thr'[t].last_message_count >= thr[t].last_message_count]_vars

\* a cycle has just run on a window shorter than the cursor: trimmed by the
\* server, or empty because the fetch failed
C6_ShorterWindowSeen ==
    \E t \in Threads :
      /\ thr[t].pc = "sleep"
      /\ thr[t].fetched < thr[t].last_message_count
      /\ thr[t].outcome = "ok"
      /\ thr[t].fetched > 0

\* C7 (resilience): a failed fetch does not end the loop: the thread goes
\* to sleep, and from there to the while test and, the flag still set, to
\* the next fetch; a loop ends only by reading the flag as False.
C7_Resilience ==
    [][\A t \in Threads :
         /\ (CycleOf(t) /\ thr'[t].outcome \in Errors) =>
              (thr'[t].pc = "sleep" /\ delivered'[t] = delivered[t])
         /\ (thr[t].pc = "sleep" /\ thr[t].outcome \in Errors
             /\ thr'[t] # thr[t]) => thr'[t].pc = "while"
         /\ (thr[t].pc = "while" /\ message_polling /\ thr'[t] # thr[t])
              => thr'[t].pc = "try"
         /\ Ends(t) => ~message_polling]_vars

\* a fetch has failed and the loop is at its sleep
C7_Case ==
    \E t \in Threads : thr[t].pc = "sleep" /\ thr[t].outcome \in Errors

\* C8 (stop leads to Stopped): a polling loop that has been asked to stop
\* eventually ends.
C8_StopLeadsToStopped ==
    \A t \in Threads : (t \in stopRequested) ~> ~Alive(t)

\* C9 (no new fetch after Stopping): a loop that has been asked to stop
\* begins no further fetch: it does not pass its while test again, so that
\* only the cycle under way at the request calls get_messages.
C9_NoNewFetch ==
    [][\A t \in stopRequested :
         ~(thr[t].pc = "while" /\ thr'[t].pc = "try")]_vars

\* C10 (discard on stop): the messages of a fetch that was in flight when
\* stop was requested are not displayed.
C10_DiscardOnStop ==
    [][\A t \in stopInFlight : delivered'[t] = delivered[t]]_vars

\* stop has been requested during a fetch that the room has messages for
C10_Case ==
    \E t \in stopInFlight : thr[t].pc = "fetching" /\ total > 0

\* C11 (invalid interval is rejected): no polling thread is ever created
\* with a non-positive interval.
C11_InvalidIntervalRejected ==
    \A t \in Threads : thr[t].pc # "unborn" => thr[t].interval > 0

\* C12 (fatal auth errors stop the loop): after a fetch that failed with an
\* authentication failure the loop ends; it does not go from its sleep back
\* to the while test for another cycle.
C12_AuthFailureStopsLoop ==
    [][\A t \in Threads :
         (thr[t].pc = "sleep" /\ thr[t].outcome = "AuthFailure"
          /\ thr'[t] # thr[t]) => ~Alive(t)']_vars

\* no loop is running: none was ever started, or stop_message_polling has
\* returned for the last one started
NotRunning == polling_thread = 0 \/ polling_thread \in stopReturned

\* C13 (stop is a no-op when not running): with no loop running, a call of
\* stop_message_polling changes nothing: no field of the client, no join
\* (the controller stays idle), no line printed.
C13_StopNoOp ==
    (ctl = "idle" /\ NotRunning) => ~ENABLED (StopCall /\ vars' # vars)

\* a loop has been started and stopped, and the controller is idle again: a
\* further stop is the second in a row
C13_Case ==
    ctl = "idle" /\ polling_thread \in stopReturned /\ stop_output # <<>>

\* C14 (stop always returns): a controller that is waiting in the join of
\* stop_message_polling gets back to idle, even if the polling thread stays
\* in its request or in its sleep for ever.
C14_StopReturns == (ctl # "idle") ~> (ctl = "idle")

\* stop_message_polling has returned for a thread that is still alive
C14_Case == ctl = "idle" /\ \E t \in stopReturned : Alive(t)

\* C15 (shutdown timeout is reported): when the join of
\* stop_message_polling returns with the polling thread still alive, what
\* stop_message_polling prints is not the line of a completed stop.
C15_TimeoutReported ==
    [][(ctl # "idle" /\ stop_output' # stop_output
        /\ Alive(polling_thread)) =>
          stop_output'[Len(stop_output')] # StoppedLine]_vars

\* C16 (count-based step, growing window): a cycle whose window is longer
\* than the cursor displays exactly the window's messages from the cursor
\* on, in order, and sets the cursor to the window's length.
C16_GrowingWindow ==
    [][\A t \in Threads :
         (CycleOf(t) /\ thr'[t].fetched > thr[t].last_message_count) =>
           /\ delivered'[t] =
                delivered[t]
                \o Slice(Window(Limit), thr[t].last_message_count)
           /\ thr'[t].last_message_count = thr'[t].fetched]_vars

\* C17 (count-based step, non-growing window): a cycle whose window is no
\* longer than the cursor, the empty list of a failed fetch included,
\* displays nothing and leaves the cursor as it was.
C17_NonGrowingWindow ==
    [][\A t \in Threads :
         (CycleOf(t) /\ thr'[t].fetched <= thr[t].last_message_count) =>
           /\ delivered'[t] = delivered[t]
           /\ thr'[t].last_message_count = thr[t].last_message_count]_vars

\* a loop that has displayed messages has just run a cycle on a window no
\* longer than its cursor: of the same length, or empty after a failure
C17_Case ==
    \E t \in Threads :
      /\ thr[t].pc = "sleep"
      /\ thr[t].last_message_count > 0
      /\ \/ thr[t].outcome \in Errors
         \/ thr[t].outcome = "ok"
            /\ thr[t].fetched = thr[t].last_message_count

\* C18 (cursor counts deliveries): each time the only polling loop is at
\* its while test, last_message_count is the number of _display_message
\* calls made so far: those that printed and those that raised.
C18_CursorCountsDeliveries ==
    \A t \in Threads :
      (nthreads = 1 /\ thr[t].pc = "while") =>
        thr[t].last_message_count = Len(delivered[t]) + raises

\* C19 (session consistency): the session carries an Authorization header
\* if and only if self.token is not None.
C19_SessionConsistency == (authorization # None) <=> (token # None)

====
